---- MODULE Spec2Model ----
(***************************************************************************)
(* Model of recovery.py (Syncthing-Recovery): the revision selector        *)
(* get_backup_file_info and the recovery loop find_and_copy_backup.        *)
(*                                                                         *)
(* A filename is a sequence of one-character strings.  The 15-character    *)
(* timestamp field YYYYMMDD-HHMMSS is abstracted to ONE digit character;   *)
(* strptime succeeds exactly on a one-character digit segment and returns  *)
(* the digit's value, so timestamps are ordered like the datetimes they    *)
(* stand for.  Anything else in the timestamp position raises ValueError.  *)
(***************************************************************************)
EXTENDS Integers, Sequences, FiniteSets, TLC

VARIABLES
    \* ---- get_backup_file_info (one call) ----
    backup_files,   \* the argument: list of candidate filenames
    sel_i,          \* position of the for loop (next element to visit)
    bak,            \* the BackupFileInfo being built
    sel_pc,         \* "idle" | "loop" | "returned" | "ValueError"
    \* ---- find_and_copy_backup (two consecutive runs) ----
    store,          \* the backup store, per original file
    recTree,        \* the recovery tree, per original file
    run,            \* 1 or 2: which invocation of find_and_copy_backup
    index,          \* position of the for loop over all_files
    results,        \* the FileRecoveryResult being built
    errors,         \* files for which logger.error reported a copy error
    pc,             \* "idle" | "loop" | "returned" | "raised"
    exc,            \* exception that left find_and_copy_backup, or "none"
    firstResults,   \* what the first run returned
    firstErrors     \* copy errors the first run logged

selVars == <<backup_files, sel_i, bak, sel_pc>>
recVars == <<store, recTree, run, index, results, errors, pc, exc,
             firstResults, firstErrors>>
vars == <<backup_files, sel_i, bak, sel_pc, store, recTree, run, index,
          results, errors, pc, exc, firstResults, firstErrors>>

\* ------------------------------------------------------------------------
\* Bounds
\* ------------------------------------------------------------------------
\* timestamps are the digits 0..MaxTime
MaxTime == 3
\* longest candidate list handed to get_backup_file_info
MaxLen == 3
\* most entries in one directory of the backup store
MaxBackups == 2

\* ------------------------------------------------------------------------
\* Configuration (in abstract time units)
\* ------------------------------------------------------------------------
REFERENCE_TIME == 1
TIME_LIMIT == 1

\* Python's None: the empty tuple.  A filename is never empty, and a datetime
\* stored in a field is wrapped as a one-element tuple <<t>>.
None == <<>>

\* ------------------------------------------------------------------------
\* Strings as sequences of characters
\* ------------------------------------------------------------------------
DigitChars == <<"0", "1", "2", "3", "4", "5", "6", "7", "8", "9">>

IsDigit(c) == \E n \in 1..Len(DigitChars) : DigitChars[n] = c

DigitValue(c) == (CHOOSE n \in 1..Len(DigitChars) : DigitChars[n] = c) - 1

\* str.startswith
StartsWith(s, p) == Len(p) <= Len(s) /\ SubSeq(s, 1, Len(p)) = p

\* str.endswith
EndsWith(s, p) ==
    Len(p) <= Len(s) /\ SubSeq(s, Len(s) - Len(p) + 1, Len(s)) = p

\* str.rfind, 0 when the character does not occur
RFind(s, c) ==
    LET hits == {i \in 1..Len(s) : s[i] = c}
    IN  IF hits = {} THEN 0 ELSE CHOOSE i \in hits : \A j \in hits : j <= i

\* os.path.splitext on a name without directory part: split at the last
\* dot, unless only dots precede it
SplitExt(p) ==
    LET d == RFind(p, ".")
    IN  IF d > 0 /\ \E j \in 1..(d - 1) : p[j] # "."
        THEN <<SubSeq(p, 1, d - 1), SubSeq(p, d, Len(p))>>
        ELSE <<p, <<>>>>

\* split_extension: splitext, with name and extension swapped for dotfiles
split_extension(filename) ==
    LET ne == SplitExt(filename)
    IN  IF StartsWith(ne[1], <<".">>) /\ Len(ne[2]) = 0
        THEN <<<<>>, ne[1]>>
        ELSE ne

\* basename.split('~')[-1]
TimestampStr(file) ==
    LET basename == split_extension(file)[1]
        t == RFind(basename, "~")
    IN  SubSeq(basename, t + 1, Len(basename))

\* does datetime.strptime(timestamp_str, '%Y%m%d-%H%M%S') succeed
Parses(file) ==
    LET s == TimestampStr(file) IN Len(s) = 1 /\ IsDigit(s[1])

\* the datetime it returns
Timestamp(file) == DigitValue(TimestampStr(file)[1])

\* ------------------------------------------------------------------------
\* get_backup_file_info
\* ------------------------------------------------------------------------
Cutoff == REFERENCE_TIME + TIME_LIMIT

IsInsideTimeLimit_Strict(timestamp) == timestamp < Cutoff

IsInsideTimeLimit(timestamp) == timestamp <= Cutoff

\* BackupFileInfo()
NewBackupFileInfo(n) ==
    [count |-> n,
     latest_time |-> None, latest_file |-> None,
     latest_outside_limit |-> FALSE,
     backup_file |-> None, backup_time |-> None]

\* The two guarded updates of one loop iteration
UpdateLatest(b, file, timestamp) ==
    IF b.latest_time = None \/ timestamp > b.latest_time[1]
    THEN [b EXCEPT !.latest_time = <<timestamp>>,
                   !.latest_file = file,
                   !.latest_outside_limit = ~IsInsideTimeLimit(timestamp)]
    ELSE b

UpdateBackup(b, file, timestamp) ==
    IF IsInsideTimeLimit(timestamp)
    THEN IF b.backup_time = None \/ timestamp > b.backup_time[1]
         THEN [b EXCEPT !.backup_time = <<timestamp>>, !.backup_file = file]
         ELSE b
    ELSE b

\* variant: both maxima are replaced on an equal timestamp (>= for >)
ScanOne_LastWins(b, file) ==
    LET timestamp == Timestamp(file)
        b1 == IF b.latest_time = None \/ timestamp >= b.latest_time[1]
              THEN [b EXCEPT !.latest_time = <<timestamp>>,
                             !.latest_file = file,
                             !.latest_outside_limit =
                                 ~IsInsideTimeLimit(timestamp)]
              ELSE b
    IN  IF IsInsideTimeLimit(timestamp)
        THEN IF b1.backup_time = None \/ timestamp >= b1.backup_time[1]
             THEN [b1 EXCEPT !.backup_time = <<timestamp>>, !.backup_file = file]
             ELSE b1
        ELSE b1

\* variant: latest_outside_limit assigned on every iteration, outside the if
ScanOne_FlagEveryTime(b, file) ==
    LET timestamp == Timestamp(file)
        b1 == UpdateLatest(b, file, timestamp)
        b2 == [b1 EXCEPT !.latest_outside_limit =
                             ~IsInsideTimeLimit(timestamp)]
    IN  UpdateBackup(b2, file, timestamp)

\* body of the for loop, for a file whose timestamp parses
ScanOne(b, file) ==
    LET timestamp == Timestamp(file)
    IN  UpdateBackup(UpdateLatest(b, file, timestamp), file, timestamp)

\* the whole call: the loop run to its end, or to the first ValueError
RECURSIVE ScanFrom(_, _, _)
ScanFrom(b, files, i) ==
    IF i > Len(files) THEN [raised |-> FALSE, info |-> b]
    ELSE IF ~Parses(files[i]) THEN [raised |-> TRUE, info |-> b]
    ELSE ScanFrom(ScanOne(b, files[i]), files, i + 1)

get_backup_file_info(files) ==
    ScanFrom(NewBackupFileInfo(Len(files)), files, 1)

\* ------------------------------------------------------------------------
\* The file trees
\* ------------------------------------------------------------------------
\* get_all_files(CORRUPTED_DIR): the original files, one per directory; a
\* path is kept as its dirname and its basename
all_files ==
    <<[dir |-> "d", name |-> <<"a", ".", "t">>],
      [dir |-> "e", name |-> <<".", "g">>]>>

FileIdx == 1..Len(all_files)

Stamp(n) == DigitChars[n + 1]

Times == 0..MaxTime

\* prefix_pattern and suffix_pattern of an original file
PrefixPattern(file) == Append(split_extension(file.name)[1], "~")

SuffixPattern(file) == split_extension(file.name)[2]

\* Names a backup directory may hold next to original file k: revisions
\* <base>~<timestamp><ext>, one revision whose timestamp field is not a
\* timestamp, and one file of another name
Revision(file, n) == PrefixPattern(file) \o <<Stamp(n)>> \o SuffixPattern(file)

BadRevision(file) == PrefixPattern(file) \o <<"x">> \o SuffixPattern(file)

OtherName == <<"b", "~", "0", ".", "u">>

\* the names are numbered: 0..MaxTime the revisions, then the other two
Slots == 0..(MaxTime + 2)

SlotName(k, sl) ==
    IF sl = MaxTime + 1 THEN BadRevision(all_files[k])
    ELSE IF sl = MaxTime + 2 THEN OtherName
    ELSE Revision(all_files[k], sl)

\* Candidate lists for a direct call of get_backup_file_info: revisions of
\* a.t, the same with a second '~' in the base name (so that two different
\* names carry one timestamp), and a malformed one
SelNames ==
    {Revision(all_files[1], n) : n \in Times}
        \cup {<<"a", "~", "o", "~", Stamp(n), ".", "t">> : n \in Times}
        \cup {BadRevision(all_files[1])}

SeqsUpTo(S, n) == UNION {[1..m -> S] : m \in 0..n}

\* os.listdir returns the entries in arbitrary order
Orders(S) ==
    {s \in [1..Cardinality(S) -> S] : \A i, j \in 1..Cardinality(S) :
                                          s[i] = s[j] => i = j}

\* the entries of backup directory k that pass the filter of lines 194-197
Matching(k) ==
    {f \in store[k].entries :
        StartsWith(f, PrefixPattern(all_files[k]))
            /\ EndsWith(f, SuffixPattern(all_files[k]))}

\* ------------------------------------------------------------------------
\* FileRecoveryResult and the branches of the loop body
\* ------------------------------------------------------------------------
NewFileRecoveryResult(n) ==
    [total_original |-> n,
     missing_files |-> <<>>,
     recovered_files |-> <<>>,
     possibly_corrupted_files |-> <<>>]

\* results.missing_files.append(file)
MissingBranch(res, file) ==
    [res EXCEPT !.missing_files = Append(@, file)]

\* variant: the possibly-corrupted flag is raised where no backup qualifies
NoValidBranch_Flagged(res, file, info) ==
    [res EXCEPT !.missing_files = Append(@, file),
                !.possibly_corrupted_files =
                    IF info.latest_outside_limit THEN Append(@, file) ELSE @]

\* backup_info.backup_file is None, once the debugger lets the run go on
NoValidBranch(res, file, info) ==
    [res EXCEPT !.missing_files = Append(@, file)]

\* shutil.copy2 succeeded
RecoveredBranch(res, file, info) ==
    [res EXCEPT !.recovered_files =
        Append(@, <<file, info.backup_file, info.backup_time, info.count,
                    info.latest_outside_limit, info.latest_file,
                    info.latest_time>>)]

\* variant: a failed copy is filed under missing
CopyErrorBranch_Missing(res, file) ==
    [res EXCEPT !.missing_files = Append(@, file)]

\* except Exception: only logger.error, results untouched
CopyErrorBranch(res, file) == res

\* ------------------------------------------------------------------------
\* Initial states
\* ------------------------------------------------------------------------
SelIdle ==
    /\ backup_files = <<>>
    /\ sel_i = 1
    /\ bak = NewBackupFileInfo(0)
    /\ sel_pc = "idle"

RecIdle ==
    /\ store = [k \in FileIdx |->
                   [exists |-> FALSE, entries |-> {}, readonly |-> FALSE]]
    /\ recTree = [k \in FileIdx |-> "absent"]
    /\ run = 1
    /\ index = 1
    /\ results = NewFileRecoveryResult(0)
    /\ errors = <<>>
    /\ pc = "idle"
    /\ exc = "none"
    /\ firstResults = NewFileRecoveryResult(0)
    /\ firstErrors = <<>>

\* A backup directory: absent, or present with at most MaxBackups entries
DirShapes ==
    {[exists |-> FALSE, slots |-> {}]}
        \cup {[exists |-> TRUE, slots |-> X] :
                 X \in {Y \in SUBSET Slots : Cardinality(Y) <= MaxBackups}}

\* the files of the store are all writable or all read-only
BackupDir(k, shape, ro) ==
    [exists |-> shape.exists,
     entries |-> {SlotName(k, sl) : sl \in shape.slots},
     readonly |-> ro]

\* What is at the recovery path of a file before the first run:
\*   "absent"  - nothing; the directory can be created
\*   "blocked" - a regular file sits where the directory has to be
\*   "ro"      - the file is already there and is read-only
\* ("rw" - the file is there and writable - arises from a copy)
RecInit == {"absent", "blocked", "ro"}

\* find_and_copy_backup is entered: results = FileRecoveryResult()
Init ==
    /\ SelIdle
    /\ \E shapes \in [FileIdx -> DirShapes], ro \in BOOLEAN :
          store = [k \in FileIdx |-> BackupDir(k, shapes[k], ro)]
    /\ recTree \in [FileIdx -> RecInit]
    /\ run = 1
    /\ index = 1
    /\ results = NewFileRecoveryResult(Len(all_files))
    /\ errors = <<>>
    /\ pc = "loop"
    /\ exc = "none"
    /\ firstResults = NewFileRecoveryResult(0)
    /\ firstErrors = <<>>

\* get_backup_file_info is entered with some list of candidates
InitSel ==
    /\ RecIdle
    /\ backup_files \in SeqsUpTo(SelNames, MaxLen)
    /\ sel_i = 1
    /\ bak = NewBackupFileInfo(Len(backup_files))
    /\ sel_pc = "loop"

\* ------------------------------------------------------------------------
\* get_backup_file_info, one loop iteration per step
\* ------------------------------------------------------------------------
SelScan ==
    /\ sel_pc = "loop"
    /\ sel_i <= Len(backup_files)
    /\ Parses(backup_files[sel_i])
    /\ bak' = ScanOne(bak, backup_files[sel_i])
    /\ sel_i' = sel_i + 1
    /\ UNCHANGED <<backup_files, sel_pc>>
    /\ UNCHANGED recVars

\* strptime raises; nothing catches it
SelValueError ==
    /\ sel_pc = "loop"
    /\ sel_i <= Len(backup_files)
    /\ ~Parses(backup_files[sel_i])
    /\ sel_pc' = "ValueError"
    /\ UNCHANGED <<backup_files, sel_i, bak>>
    /\ UNCHANGED recVars

SelReturn ==
    /\ sel_pc = "loop"
    /\ sel_i > Len(backup_files)
    /\ sel_pc' = "returned"
    /\ UNCHANGED <<backup_files, sel_i, bak>>
    /\ UNCHANGED recVars

NextSel == SelScan \/ SelValueError \/ SelReturn

SpecSel == InitSel /\ [][NextSel]_vars

\* ------------------------------------------------------------------------
\* find_and_copy_backup, one loop iteration per step
\* ------------------------------------------------------------------------
InLoop == pc = "loop" /\ index <= Len(all_files)

Continue(res) ==
    /\ results' = res
    /\ index' = index + 1
    /\ UNCHANGED <<store, run, pc, exc, firstResults, firstErrors>>
    /\ UNCHANGED selVars

Raise(e) ==
    /\ pc' = "raised"
    /\ exc' = e
    /\ UNCHANGED <<store, recTree, run, index, results, errors,
                   firstResults, firstErrors>>
    /\ UNCHANGED selVars

\* lines 188-192: the backup directory does not exist
MissingNoDir ==
    /\ InLoop
    /\ ~store[index].exists
    /\ Continue(MissingBranch(results, all_files[index]))
    /\ UNCHANGED <<recTree, errors>>

\* lines 194-202: no entry passes the filter
MissingNoBackups ==
    /\ InLoop
    /\ store[index].exists
    /\ Matching(index) = {}
    /\ Continue(MissingBranch(results, all_files[index]))
    /\ UNCHANGED <<recTree, errors>>

\* line 204: get_backup_file_info raises ValueError, which nothing catches
ParseFails ==
    /\ InLoop
    /\ store[index].exists
    /\ Matching(index) # {}
    /\ \E listing \in Orders(Matching(index)) :
          get_backup_file_info(listing).raised
    /\ Raise("ValueError")

\* lines 206-210: no candidate inside the limit; breakpoint() enters the
\* debugger, which here resumes the program
NoValidBackup ==
    /\ InLoop
    /\ store[index].exists
    /\ Matching(index) # {}
    /\ \E listing \in Orders(Matching(index)) :
          LET r == get_backup_file_info(listing)
          IN  /\ ~r.raised
              /\ r.info.backup_file = None
              /\ Continue(NoValidBranch(results, all_files[index], r.info))
    /\ UNCHANGED <<recTree, errors>>

\* line 208: the debugger is left with quit, or its input is at end of
\* file; BdbQuit is raised at the breakpoint, which nothing catches
NoValidBackupQuit ==
    /\ InLoop
    /\ store[index].exists
    /\ Matching(index) # {}
    /\ \E listing \in Orders(Matching(index)) :
          LET r == get_backup_file_info(listing)
          IN  ~r.raised /\ r.info.backup_file = None
    /\ Raise("BdbQuit")

\* line 218: os.makedirs(recovery_dir, exist_ok=True) raises FileExistsError
\* when the path exists and is not a directory; the call is outside the try
MkdirFails ==
    /\ InLoop
    /\ store[index].exists
    /\ Matching(index) # {}
    /\ \E listing \in Orders(Matching(index)) :
          LET r == get_backup_file_info(listing)
          IN  ~r.raised /\ r.info.backup_file # None
    /\ recTree[index] = "blocked"
    /\ Raise("FileExistsError")

\* lines 220-232: copy2 writes the file and then copies the mode bits of the
\* backup onto it
CopyOk ==
    /\ InLoop
    /\ store[index].exists
    /\ Matching(index) # {}
    /\ recTree[index] \in {"absent", "rw"}
    /\ \E listing \in Orders(Matching(index)) :
          LET r == get_backup_file_info(listing)
          IN  /\ ~r.raised
              /\ r.info.backup_file # None
              /\ Continue(RecoveredBranch(results, all_files[index], r.info))
    /\ recTree' = [recTree EXCEPT ![index] =
                      IF store[index].readonly THEN "ro" ELSE "rw"]
    /\ UNCHANGED errors

\* lines 234-235: copy2 cannot open a read-only destination for writing
\* (PermissionError); the except clause logs and the loop goes on
CopyFails ==
    /\ InLoop
    /\ store[index].exists
    /\ Matching(index) # {}
    /\ recTree[index] = "ro"
    /\ \E listing \in Orders(Matching(index)) :
          LET r == get_backup_file_info(listing)
          IN  ~r.raised /\ r.info.backup_file # None
    /\ Continue(CopyErrorBranch(results, all_files[index]))
    /\ errors' = Append(errors, all_files[index])
    /\ UNCHANGED recTree

\* line 241
Return ==
    /\ pc = "loop"
    /\ index > Len(all_files)
    /\ pc' = "returned"
    /\ UNCHANGED <<store, recTree, run, index, results, errors, exc,
                   firstResults, firstErrors>>
    /\ UNCHANGED selVars

\* the program is run again on the same trees
SecondRun ==
    /\ pc = "returned"
    /\ run = 1
    /\ run' = 2
    /\ firstResults' = results
    /\ firstErrors' = errors
    /\ results' = NewFileRecoveryResult(Len(all_files))
    /\ errors' = <<>>
    /\ index' = 1
    /\ pc' = "loop"
    /\ UNCHANGED <<store, recTree, exc>>
    /\ UNCHANGED selVars

Next ==
    \/ MissingNoDir
    \/ MissingNoBackups
    \/ ParseFails
    \/ NoValidBackup
    \/ NoValidBackupQuit
    \/ MkdirFails
    \/ CopyOk
    \/ CopyFails
    \/ Return
    \/ SecondRun

Spec == Init /\ [][Next]_vars

\* ------------------------------------------------------------------------
\* Vocabulary of the properties
\* ------------------------------------------------------------------------
SeqSet(s) == {s[i] : i \in DOMAIN s}

NoDuplicates(s) == \A i, j \in DOMAIN s : s[i] = s[j] => i = j

\* original files named by the rows of the recovered table
RecoveredOriginals(res) ==
    [i \in DOMAIN res.recovered_files |-> res.recovered_files[i][1]]

IsMissing(res, file) == file \in SeqSet(res.missing_files)

IsRecovered(res, file) == file \in SeqSet(RecoveredOriginals(res))

IsPossiblyCorrupted(res, file) ==
    file \in SeqSet(res.possibly_corrupted_files)

Classification(res, file) ==
    <<IsMissing(res, file), IsRecovered(res, file),
      IsPossiblyCorrupted(res, file)>>

\* the loop has gone past original file k
Processed(k) == index > k

\* the run was aborted while working on original file k
AbortedAt(k) == pc = "raised" /\ index = k

\* positions of the candidate list and their timestamps
Pos == 1..Len(backup_files)

TimeAt(i) == Timestamp(backup_files[i])

Qualifying == {i \in Pos : TimeAt(i) <= Cutoff}

\* facts about the backup directory of original file k
HasCandidates(k) == store[k].exists /\ Matching(k) # {}

AllWellFormed(k) == \A f \in Matching(k) : Parses(f)

WellFormedInside(k) ==
    {f \in Matching(k) : Parses(f) /\ Timestamp(f) <= Cutoff}

AllTooRecent(k) ==
    /\ HasCandidates(k)
    /\ \A f \in Matching(k) : Parses(f) /\ Timestamp(f) > Cutoff

HasMalformed(k) == store[k].exists /\ \E f \in Matching(k) : ~Parses(f)

HasChosen(k) ==
    HasCandidates(k) /\ AllWellFormed(k) /\ WellFormedInside(k) # {}

\* ------------------------------------------------------------------------
\* Properties of get_backup_file_info (checked under SpecSel)
\* ------------------------------------------------------------------------
\* C1: when get_backup_file_info returns, backup_file/backup_time is a
\* candidate of maximum timestamp among those with timestamp <= cutoff
\* (a candidate exactly at the cutoff qualifies), and backup_file is None
\* exactly when no candidate qualifies.
C1_ChosenIsMaxInsideCutoff ==
    sel_pc = "returned" =>
        /\ (bak.backup_file = None) <=> (Qualifying = {})
        /\ Qualifying # {} =>
              \E i \in Qualifying :
                  /\ bak.backup_file = backup_files[i]
                  /\ bak.backup_time = <<TimeAt(i)>>
                  /\ \A j \in Qualifying : TimeAt(j) <= TimeAt(i)

\* a candidate exactly at the cutoff is chosen over an older one, with a
\* newer one beyond the cutoff present
C1_Witness ==
    /\ sel_pc = "returned"
    /\ bak.backup_time = <<Cutoff>>
    /\ \E i, j \in Pos : TimeAt(i) < Cutoff /\ TimeAt(j) > Cutoff

\* C3: when get_backup_file_info returns, latest_file/latest_time is a
\* candidate of maximum timestamp among all candidates, and
\* latest_outside_limit is true exactly when that maximum is strictly after
\* the cutoff; for an empty list both are None and the flag is false.
C3_LatestIsMaxAndFlag ==
    sel_pc = "returned" =>
        IF Pos = {}
        THEN /\ bak.latest_file = None
             /\ bak.latest_time = None
             /\ bak.latest_outside_limit = FALSE
        ELSE \E i \in Pos :
                /\ bak.latest_file = backup_files[i]
                /\ bak.latest_time = <<TimeAt(i)>>
                /\ \A j \in Pos : TimeAt(j) <= TimeAt(i)
                /\ bak.latest_outside_limit <=> (TimeAt(i) > Cutoff)

\* the maximum lies beyond the cutoff and is followed by an older candidate
C3_Witness ==
    /\ sel_pc = "returned"
    /\ Len(backup_files) >= 2
    /\ TimeAt(1) > Cutoff
    /\ TimeAt(Len(backup_files)) <= Cutoff
    /\ bak.latest_outside_limit

FirstOf(S) == CHOOSE i \in S : \A j \in S : i <= j

LastOf(S) == CHOOSE i \in S : \A j \in S : j <= i

\* positions holding the maximum timestamp of a set of positions
MaxPositions(S) == {i \in S : \A j \in S : TimeAt(j) <= TimeAt(i)}

\* C10 as stated: of several candidates sharing the maximum timestamp the
\* one encountered LAST is retained, as latest_file and as backup_file.
C10_LastEncounteredWins ==
    sel_pc = "returned" =>
        /\ Pos # {} =>
              bak.latest_file = backup_files[LastOf(MaxPositions(Pos))]
        /\ Qualifying # {} =>
              bak.backup_file = backup_files[LastOf(MaxPositions(Qualifying))]

\* C10 amended: of several candidates sharing the maximum timestamp the one
\* encountered FIRST is retained, as latest_file and as backup_file.
C10_FirstEncounteredWins ==
    sel_pc = "returned" =>
        /\ Pos # {} =>
              bak.latest_file = backup_files[FirstOf(MaxPositions(Pos))]
        /\ Qualifying # {} =>
              bak.backup_file = backup_files[FirstOf(MaxPositions(Qualifying))]

\* two differently named candidates share the maximum timestamp, which is
\* inside the cutoff
C10_Witness ==
    /\ sel_pc = "returned"
    /\ \E i, j \in MaxPositions(Pos) :
          /\ i < j
          /\ backup_files[i] # backup_files[j]
          /\ TimeAt(i) <= Cutoff
          /\ bak.backup_file = backup_files[i]
          /\ bak.latest_file = backup_files[i]

\* ------------------------------------------------------------------------
\* Properties of find_and_copy_backup (checked under Spec)
\* ------------------------------------------------------------------------
\* C2: after find_and_copy_backup returns, a recovered file whose latest
\* candidate is after the cutoff while its chosen candidate is not appears
\* in recovered_files and in possibly_corrupted_files.
C2_FlaggedPossiblyCorrupted ==
    pc = "returned" =>
        \A i \in DOMAIN results.recovered_files :
            LET row == results.recovered_files[i]
            IN  (row[7][1] > Cutoff /\ row[3][1] <= Cutoff) =>
                    /\ IsRecovered(results, row[1])
                    /\ IsPossiblyCorrupted(results, row[1])

\* C4: an original file with candidates, all after the cutoff, is filed
\* under missing, is neither recovered nor possibly corrupted, and the run
\* goes on to the next file.
C4_TooRecentIsMissing ==
    \A k \in FileIdx :
        AllTooRecent(k) =>
            /\ ~AbortedAt(k)
            /\ Processed(k) =>
                  /\ IsMissing(results, all_files[k])
                  /\ ~IsRecovered(results, all_files[k])
                  /\ ~IsPossiblyCorrupted(results, all_files[k])

\* C5: a step on a file whose copy fails adds the file neither to
\* recovered_files nor to missing_files, reports the copy error, and moves
\* to the next original file with the run still going.
C5_CopyFailureIsPerFile ==
    [][(InLoop /\ HasChosen(index) /\ recTree[index] = "ro") =>
          /\ ~IsMissing(results', all_files[index])
          /\ ~IsRecovered(results', all_files[index])
          /\ errors' = Append(errors, all_files[index])
          /\ index' = index + 1
          /\ pc' = "loop"]_vars

\* the copy of the first file failed and the run went on to recover the
\* second and to return
C5_Witness ==
    /\ pc = "returned"
    /\ all_files[1] \in SeqSet(errors)
    /\ IsRecovered(results, all_files[2])

\* C6: a matching candidate whose timestamp field does not parse is
\* skipped: the run is not aborted by it and the file is classified from
\* its remaining candidates.
C6_MalformedIsSkipped ==
    \A k \in FileIdx :
        HasMalformed(k) =>
            /\ ~(AbortedAt(k) /\ exc = "ValueError")
            /\ Processed(k) =>
                  (IsMissing(results, all_files[k])
                      <=> WellFormedInside(k) = {})

\* C7: when the destination directory cannot be created the copy is
\* abandoned and the run goes on; nothing propagates out of
\* find_and_copy_backup.
C7_MkdirFailureIsPerFile ==
    \A k \in FileIdx :
        (HasChosen(k) /\ recTree[k] = "blocked") =>
            /\ ~AbortedAt(k)
            /\ Processed(k) => ~IsRecovered(results, all_files[k])

\* C8: in every state no file is both in missing_files and in
\* recovered_files, no file is twice in either list, and every file in
\* possibly_corrupted_files is in recovered_files.
C8_Partition ==
    /\ SeqSet(results.missing_files)
           \cap SeqSet(RecoveredOriginals(results)) = {}
    /\ NoDuplicates(results.missing_files)
    /\ NoDuplicates(RecoveredOriginals(results))
    /\ SeqSet(results.possibly_corrupted_files)
           \subseteq SeqSet(RecoveredOriginals(results))

\* a run that filed one file under missing because all its candidates are
\* too recent, and recovered the other although a newer revision exists
C8_Witness ==
    /\ pc = "returned"
    /\ \E k \in FileIdx :
          AllTooRecent(k) /\ IsMissing(results, all_files[k])
    /\ \E i \in DOMAIN results.recovered_files :
          results.recovered_files[i][5]

\* C9: a second run over an unchanged backup store classifies every file
\* as the first run did.
C9_SecondRunSameClassification ==
    (run = 2 /\ pc = "returned") =>
        \A k \in FileIdx :
            Classification(results, all_files[k])
                = Classification(firstResults, all_files[k])

====
